---- MODULE Spec2Model ----
(***************************************************************************)
(* Connection handshake driver of the relayer: CreateOpenConnections (the  *)
(* retry loop), ExecuteConnectionStep (one step: synchronise, observe,     *)
(* decide, submit) and InitializeConnection (OpenInit / OpenTry while a    *)
(* PathEnd connection identifier is still empty), run against two chains.  *)
(***************************************************************************)
EXTENDS Integers, Sequences, FiniteSets, TLC

VARIABLES
    connID,      \* PathEnd.ConnectionID of each chain; <<>> is the empty string
    conns,       \* on-chain connection ends of each chain: conns[c][n] is the state of c's n-th connection
    maxRetries,  \* argument of CreateOpenConnections
    debug,       \* Chain.debug of the chain CreateOpenConnections is called on
    clientsOK,   \* whether ValidateClientPaths accepts the two PathEnds
    pc,          \* position of CreateOpenConnections: "start", "loop", "returned"
    result,      \* its return value once pc = "returned"
    failed,      \* the local failure counter of the loop
    last,        \* what the latest ExecuteConnectionStep did and returned
    attempts,    \* number of ExecuteConnectionStep invocations so far
    nSuccess,    \* number of steps that returned success = true
    consec,      \* failures (success = false, err = nil) since the latest success
    accepted,    \* accepted handshake transactions, in order: <<chain, message type>>
    nSubmitted,  \* number of SendMsgs calls
    built,       \* built[<<s, d>>]: message types ever built on observing the pair
    envFault,    \* the environment injected a fault or refused a valid submission
    interfered,  \* another relayer changed a chain
    start,       \* the initial PathEnd identifiers and on-chain states
    prev,        \* on-chain connection ends of each chain one block below its latest height
    lagged,      \* a step ran while a chain's latest block held a change
    stopRequested, \* the operator has asked the driving loop to stop
    egOp,        \* the paired fetch being called, "-" when none
    egPc,        \* position of the paired fetch: "idle", "go1", "go2", "wait", "returned"
    egTask,      \* each goroutine: "unstarted", "running", "fetched", "done"
    egTaskErr,   \* the err local of each goroutine: "-", "nil", "fail"
    egVal,       \* the two named result variables: "zero" or the chain the value came from
    egErr,       \* errgroup's recorded error: "nil" or the chain whose fetch it came from
    egOrder,     \* goroutines that returned an error, in the order they returned
    egWriters,   \* egWriters[v]: goroutines that have assigned result variable v
    egRet,       \* what the paired fetch returned
    msgKind,     \* the message constructor called, "-" when none
    msgH,        \* the proof height handed to it
    msgField,    \* the proof-height field of the message it built, "-" when it has none
    pIds,        \* threads view: whether each PathEnd.ConnectionID is set
    pLoop,       \* threads view: the loop of CreateOpenConnections, "running" or "returned"
    pCalls,      \* number of ExecuteConnectionStep calls the loop has made
    pPos,        \* position of each ExecuteConnectionStep invocation
    pTarget,     \* the chain whose identifier an invocation is about to assign
    pTask,       \* the goroutines of each invocation's QueryConnectionPair
    chKind,      \* the channel message constructor called, "-" when none
    chOrder,     \* PathEnd.Order of the local PathEnd, as configured
    chObs,       \* the counterparty's observed channel: ordering and version
    chOut,       \* the ordering and versions of the message built
    lcMap,       \* lcMap[chainID]: "none" (no entry), "client", or "failed" (what a
                 \* failed NewLiteClient returned)
    lcClient,    \* the latest lite client created for each chain: "none", "running",
                 \* "stopped", "cleaned"
    lcCrashed,   \* a command panicked
    lcLast       \* the latest lite command, its inputs, its result, the map before it

\* the variables of CreateOpenConnections and the chains
mvars == <<connID, conns, maxRetries, debug, clientsOK, pc, result, failed, last,
           attempts, nSuccess, consec, accepted, nSubmitted, built, envFault,
           interfered, start, prev, lagged, stopRequested>>

\* the variables of one paired fetch
egvars == <<egOp, egPc, egTask, egTaskErr, egVal, egErr, egOrder, egWriters, egRet>>

\* the variables of one message construction
msgvars == <<msgKind, msgH, msgField>>

\* the variables of the threads of one path
pathvars == <<pIds, pLoop, pCalls, pPos, pTarget, pTask>>

\* the variables of one channel message construction
chanvars == <<chKind, chOrder, chObs, chOut>>

\* the variables of the lite commands
lcvars == <<lcMap, lcClient, lcCrashed, lcLast>>

vars == <<mvars, egvars, msgvars, pathvars, chanvars, lcvars>>

\* what the actions of each part leave alone
besideMain == <<egvars, msgvars, pathvars, chanvars, lcvars>>

besideFetch == <<mvars, msgvars, pathvars, chanvars, lcvars>>

besideMsgs == <<mvars, egvars, pathvars, chanvars, lcvars>>

besidePath == <<mvars, egvars, msgvars, chanvars, lcvars>>

besideChan == <<mvars, egvars, msgvars, pathvars, lcvars>>

besideLite == <<mvars, egvars, msgvars, pathvars, chanvars>>

\* largest retry budget explored
MaxRetriesBound == 2

Chains == {"src", "dst"}

Other(c) == IF c = "src" THEN "dst" ELSE "src"

\* conntypes.State
States == {"UNINITIALIZED", "INIT", "TRYOPEN", "OPEN"}

\* the empty connection identifier, ""
NoID == <<>>

\* hard errors a step can meet before or while building its messages
Faults == {"none", "NewSyncHeaders", "GetTrustedHeaders", "QueryConnectionPair", "build"}

\* what SendMsgs can answer for a bundle the chain would execute:
\* (res, true, nil), (res, false, nil), (nil, false, err); a transaction the
\* relayer's account cannot pay for is rejected like any other
SendOutcomes == {"ok", "rejected", "insufficient funds", "error"}

\* ChainProvider.QueryConnection: the state of the connection end `id` on chain c
QueryConnection(cn, c, id) ==
    IF id = NoID \/ id[1] > Len(cn[c]) THEN "UNINITIALIZED" ELSE cn[c][id[1]]

----------------------------------------------------------------------------
(* Message constructors of PathEnd.  pe is the chain whose PathEnd builds   *)
(* the message: it supplies ClientID and ConnectionID.  A proof is the      *)
(* queried state of the counterparty's connection end.                      *)

NoProof == [chain |-> "-", id |-> NoID, state |-> "-"]

\* the proof of the connection end ids[c] on chain c, as queried from c
ConnProof(ids, cn, c) ==
    [chain |-> c, id |-> ids[c], state |-> QueryConnection(cn, c, ids[c])]

UpdateClient(pe, header) ==
    [type |-> "UpdateClient", pe |-> pe, header |-> header,
     connID |-> NoID, cpConnID |-> NoID, proof |-> NoProof]

ConnInit(ids, pe) ==
    [type |-> "ConnOpenInit", pe |-> pe, header |-> "-",
     connID |-> ids[pe], cpConnID |-> ids[Other(pe)], proof |-> NoProof]

ConnTry(ids, cn, pe) ==
    [type |-> "ConnOpenTry", pe |-> pe, header |-> "-",
     connID |-> ids[pe], cpConnID |-> ids[Other(pe)], proof |-> ConnProof(ids, cn, Other(pe))]

ConnAck(ids, cn, pe) ==
    [type |-> "ConnOpenAck", pe |-> pe, header |-> "-",
     connID |-> ids[pe], cpConnID |-> NoID, proof |-> ConnProof(ids, cn, Other(pe))]

ConnConfirm(ids, cn, pe) ==
    [type |-> "ConnOpenConfirm", pe |-> pe, header |-> "-",
     connID |-> ids[pe], cpConnID |-> NoID, proof |-> ConnProof(ids, cn, Other(pe))]

----------------------------------------------------------------------------
(* The chains: what a chain does with a submitted bundle.  A bundle is one  *)
(* transaction; it is executed whole or not at all.                         *)

\* the proof is of the counterparty of chain `to`, verifies against the
\* counterparty's state at the proof height (pv, one block below the header
\* the bundle's UpdateClient carries), and shows the connection end in state `want`
ProofShows(pv, to, p, want) ==
    /\ p.chain = Other(to)
    /\ p.id # NoID
    /\ QueryConnection(pv, p.chain, p.id) = p.state
    /\ p.state = want

\* whether chain `to` executes message m in on-chain state cn
MsgValid(cn, pv, to, m) ==
    /\ m.pe = to    \* the client and the connection end named are this chain's
    /\ CASE m.type = "UpdateClient" -> m.header = Other(to)
         [] m.type = "ConnOpenInit" -> m.connID = NoID
         [] m.type = "ConnOpenTry" ->
                /\ ProofShows(pv, to, m.proof, "INIT")
                /\ m.connID # NoID => QueryConnection(cn, to, m.connID) = "INIT"
         [] m.type = "ConnOpenAck" ->
                /\ QueryConnection(cn, to, m.connID) \in {"INIT", "TRYOPEN"}
                /\ ProofShows(pv, to, m.proof, "TRYOPEN")
         [] m.type = "ConnOpenConfirm" ->
                /\ QueryConnection(cn, to, m.connID) = "TRYOPEN"
                /\ ProofShows(pv, to, m.proof, "OPEN")
         [] OTHER -> FALSE

\* the on-chain state after chain `to` executed message m
MsgApply(cn, to, m) ==
    CASE m.type = "ConnOpenInit" ->
            [cn EXCEPT ![to] = Append(@, "INIT")]
      [] m.type = "ConnOpenTry" /\ m.connID = NoID ->
            [cn EXCEPT ![to] = Append(@, "TRYOPEN")]
      [] m.type = "ConnOpenTry" /\ m.connID # NoID ->
            [cn EXCEPT ![to][m.connID[1]] = "TRYOPEN"]
      [] m.type \in {"ConnOpenAck", "ConnOpenConfirm"} ->
            [cn EXCEPT ![to][m.connID[1]] = "OPEN"]
      [] OTHER -> cn

\* a transaction executes iff it holds at least one message and each is valid
BundleValid(cn, pv, to, msgs) ==
    /\ Len(msgs) > 0
    /\ \A i \in 1..Len(msgs) : MsgValid(cn, pv, to, msgs[i])

\* Chain.SendMsgs: [success, err, conns, newID], newID the identifier the
\* chain reports in the events of the second message
SendMsgs(cn, pv, to, msgs, send) ==
    IF send = "error"
    THEN [success |-> FALSE, err |-> "send", conns |-> cn, newID |-> NoID]
    ELSE IF send = "ok" /\ BundleValid(cn, pv, to, msgs)
    THEN LET cn2 == MsgApply(cn, to, msgs[2])
         IN [success |-> TRUE, err |-> "nil", conns |-> cn2,
             newID |-> IF msgs[2].connID = NoID THEN <<Len(cn2[to])>> ELSE msgs[2].connID]
    ELSE [success |-> FALSE, err |-> "nil", conns |-> cn, newID |-> NoID]

----------------------------------------------------------------------------
(* InitializeConnection                                                     *)

\* one submission as a step records it
SendRecord(cn, pv, to, builtFor, msgs, send, res) ==
    [to |-> to, builtFor |-> builtFor, msgs |-> msgs,
     success |-> res.success, err |-> res.err,
     refused |-> \/ send \in {"error", "insufficient funds"}
                 \/ (send = "rejected" /\ BundleValid(cn, pv, to, msgs)),
     cause |-> IF send = "insufficient funds" THEN send ELSE "-"]

\* InitSubmit storing the identifier before the events are known to parse
InitSubmit_AssignBeforeParse(ids, cn, pv, to, assign, msgs, send, parseOK) ==
    LET res == SendMsgs(cn, pv, to, msgs, send)
        rec == SendRecord(cn, pv, to, msgs[1].pe, msgs, send, res)
    IN IF ~res.success
       THEN [success |-> FALSE, err |-> res.err, ids |-> ids, cn |-> res.conns,
             sends |-> <<rec>>, faulted |-> rec.refused]
       ELSE IF ~parseOK
       THEN [success |-> FALSE, err |-> "parse", ids |-> [ids EXCEPT ![assign] = res.newID],
             cn |-> res.conns, sends |-> <<rec>>, faulted |-> TRUE]
       ELSE [success |-> TRUE, err |-> "nil", ids |-> [ids EXCEPT ![assign] = res.newID],
             cn |-> res.conns, sends |-> <<rec>>, faulted |-> FALSE]

\* the tail shared by the three cases: submit msgs on chain `to`, and on
\* success parse the new identifier from the events and store it in the
\* PathEnd of chain `assign`
InitSubmit(ids, cn, pv, to, assign, msgs, send, parseOK) ==
    LET res == SendMsgs(cn, pv, to, msgs, send)
        rec == SendRecord(cn, pv, to, msgs[1].pe, msgs, send, res)
    IN IF ~res.success
       THEN [success |-> FALSE, err |-> res.err, ids |-> ids, cn |-> res.conns,
             sends |-> <<rec>>, faulted |-> rec.refused]
       ELSE IF ~parseOK
       THEN [success |-> FALSE, err |-> "parse", ids |-> ids, cn |-> res.conns,
             sends |-> <<rec>>, faulted |-> TRUE]
       ELSE [success |-> TRUE, err |-> "nil", ids |-> [ids EXCEPT ![assign] = res.newID],
             cn |-> res.conns, sends |-> <<rec>>, faulted |-> FALSE]

\* a step that returns before submitting anything
NoSubmit(ids, cn, err) ==
    [success |-> FALSE, err |-> err, ids |-> ids, cn |-> cn, sends |-> <<>>,
     faulted |-> err \in {"NewSyncHeaders", "GetTrustedHeaders", "QueryConnectionPair", "build"}]

\* InitializeConnection whose third case stores the new identifier in src's PathEnd
InitializeConnection_AssignSrc(ids, cn, pv, fault, send, parseOK) ==
    IF ids["src"] = NoID /\ ids["dst"] = NoID
    THEN InitSubmit(ids, cn, pv, "src", "src",
                    <<UpdateClient("src", "dst"), ConnInit(ids, "src")>>, send, parseOK)
    ELSE IF ids["src"] = NoID /\ ids["dst"] # NoID
    THEN IF fault = "build" THEN NoSubmit(ids, cn, "build")
         ELSE InitSubmit(ids, cn, pv, "src", "src",
                         <<UpdateClient("src", "dst"), ConnTry(ids, pv, "src")>>, send, parseOK)
    ELSE IF ids["src"] # NoID /\ ids["dst"] = NoID
    THEN IF fault = "build" THEN NoSubmit(ids, cn, "build")
         ELSE InitSubmit(ids, cn, pv, "dst", "src",
                         <<UpdateClient("dst", "src"), ConnTry(ids, pv, "dst")>>, send, parseOK)
    ELSE NoSubmit(ids, cn, "connection ends already created")

\* InitializeConnection whose first case also fills in dst's identifier
InitializeConnection_InitBoth(ids, cn, pv, fault, send, parseOK) ==
    IF ids["src"] = NoID /\ ids["dst"] = NoID
    THEN LET r == InitSubmit(ids, cn, pv, "src", "src",
                             <<UpdateClient("src", "dst"), ConnInit(ids, "src")>>, send, parseOK)
         IN [r EXCEPT !.ids = IF r.success THEN [c \in Chains |-> r.ids["src"]] ELSE r.ids]
    ELSE IF ids["src"] = NoID /\ ids["dst"] # NoID
    THEN IF fault = "build" THEN NoSubmit(ids, cn, "build")
         ELSE InitSubmit(ids, cn, pv, "src", "src",
                         <<UpdateClient("src", "dst"), ConnTry(ids, pv, "src")>>, send, parseOK)
    ELSE IF ids["src"] # NoID /\ ids["dst"] = NoID
    THEN IF fault = "build" THEN NoSubmit(ids, cn, "build")
         ELSE InitSubmit(ids, cn, pv, "dst", "dst",
                         <<UpdateClient("dst", "src"), ConnTry(ids, pv, "dst")>>, send, parseOK)
    ELSE NoSubmit(ids, cn, "connection ends already created")

InitializeConnection(ids, cn, pv, fault, send, parseOK) ==
    IF ids["src"] = NoID /\ ids["dst"] = NoID
    THEN \* OpenInit on source
         InitSubmit(ids, cn, pv, "src", "src",
                    <<UpdateClient("src", "dst"), ConnInit(ids, "src")>>, send, parseOK)
    ELSE IF ids["src"] = NoID /\ ids["dst"] # NoID
    THEN \* OpenTry on source
         IF fault = "build" THEN NoSubmit(ids, cn, "build")
         ELSE InitSubmit(ids, cn, pv, "src", "src",
                         <<UpdateClient("src", "dst"), ConnTry(ids, pv, "src")>>, send, parseOK)
    ELSE IF ids["src"] # NoID /\ ids["dst"] = NoID
    THEN \* OpenTry on counterparty
         IF fault = "build" THEN NoSubmit(ids, cn, "build")
         ELSE InitSubmit(ids, cn, pv, "dst", "dst",
                         <<UpdateClient("dst", "src"), ConnTry(ids, pv, "dst")>>, send, parseOK)
    ELSE NoSubmit(ids, cn, "connection ends already created")

----------------------------------------------------------------------------
(* ExecuteConnectionStep                                                    *)

\* CaseGuard with the first guard testing src only, so that it also takes INIT/TRYOPEN
CaseGuard_SrcOnlyInit(k, s, d) ==
    CASE k = 1 -> s = "INIT"
      [] k = 2 -> (s = "INIT" \/ s = "TRYOPEN") /\ d = "TRYOPEN"
      [] k = 3 -> s = "TRYOPEN" /\ d = "INIT"
      [] k = 4 -> s = "TRYOPEN" /\ d = "OPEN"
      [] k = 5 -> s = "OPEN" /\ d = "TRYOPEN"
      [] OTHER -> FALSE

\* the guards of the switch over the observed states, in source order
CaseGuard(k, s, d) ==
    CASE k = 1 -> s = "INIT" /\ d = "INIT"
      [] k = 2 -> (s = "INIT" \/ s = "TRYOPEN") /\ d = "TRYOPEN"
      [] k = 3 -> s = "TRYOPEN" /\ d = "INIT"
      [] k = 4 -> s = "TRYOPEN" /\ d = "OPEN"
      [] k = 5 -> s = "OPEN" /\ d = "TRYOPEN"
      [] OTHER -> FALSE

NumCases == 5

\* the cases whose guard holds
Matching(s, d) == {k \in 1..NumCases : CaseGuard(k, s, d)}

\* a Go switch runs the first case whose guard holds; 0 when none does
DecideCase(s, d) ==
    IF Matching(s, d) = {} THEN 0
    ELSE CHOOSE k \in Matching(s, d) : \A j \in Matching(s, d) : k <= j

\* the chain whose PathEnd builds the messages of case k
CaseChain(k) == IF k \in {3, 5} THEN "dst" ELSE "src"

\* the handshake message of case k
CaseMsg(k, ids, cn) ==
    CASE k = 1 -> ConnTry(ids, cn, "src")
      [] k = 2 -> ConnAck(ids, cn, "src")
      [] k = 3 -> ConnAck(ids, cn, "dst")
      [] k = 4 -> ConnConfirm(ids, cn, "src")
      [] k = 5 -> ConnConfirm(ids, cn, "dst")

\* msgs as the switch leaves it; it stays empty when no case matched
CaseMsgs(k, ids, cn) ==
    IF k = 0 THEN <<>>
    ELSE <<UpdateClient(CaseChain(k), Other(CaseChain(k))), CaseMsg(k, ids, cn)>>

\* CaseLast with last = true missing from the OpenConfirm on the counterparty
CaseLast_SrcConfirmOnly(k) == k = 4

\* CaseLast with last = true also set by the OpenAck on the counterparty
CaseLast_AckToo(k) == k \in {3, 4, 5}

\* the cases that set last = true
CaseLast(k) == k \in {4, 5}

\* the cases whose message construction can return an error (ConnTry, ConnAck)
CaseCanFail(k) == k \in {1, 2, 3}

\* the chain the step hands msgs to
SubmitChain(k) == "dst"

\* StepReturn turning a rejection without error into an error of its own
StepReturn_RaiseRejection(res, k) ==
    IF ~res.success
    THEN [success |-> FALSE, last |-> FALSE,
          err |-> IF res.err = "nil" THEN "rejected" ELSE res.err]
    ELSE [success |-> TRUE, last |-> CaseLast(k), err |-> "nil"]

\* the return of the step after SendMsgs answered
StepReturn(res, k) ==
    IF ~res.success
    THEN [success |-> FALSE, last |-> FALSE, err |-> res.err]
    ELSE [success |-> TRUE, last |-> CaseLast(k), err |-> "nil"]

NoObs == <<>>

\* NeedsInitialize with && for ||: only when both identifiers are missing
NeedsInitialize_Both(ids) == ids["src"] = NoID /\ ids["dst"] = NoID

\* "if either identifier is missing": the step goes to InitializeConnection
NeedsInitialize(ids) == ids["src"] = NoID \/ ids["dst"] = NoID

\* QueryHeight without the -1: the pair is queried at the synchronized height
QueryHeight_Latest(h) == h

\* the height QueryConnectionPair is asked at, for a chain synchronized to height h
QueryHeight(h) == h - 1

\* the on-chain state a query at QueryHeight(h) reads, h the latest height:
\* cn is the state at the latest height (0 blocks back), pv the state one block back
StateAtQueryHeight(cn, pv) ==
    IF QueryHeight(0) = 0 THEN cn ELSE pv

ExecuteConnectionStep(ids, cn, pv0, fault, send, parseOK) ==
    LET pv == StateAtQueryHeight(cn, pv0) IN
    IF fault \in {"NewSyncHeaders", "GetTrustedHeaders"}
    THEN NoSubmit(ids, cn, fault) @@ [last |-> FALSE, obs |-> NoObs, case |-> 0, init |-> FALSE]
    ELSE IF NeedsInitialize(ids)
    THEN LET r == InitializeConnection(ids, cn, pv, fault, send, parseOK)
         IN IF r.err # "nil"
            THEN [r EXCEPT !.success = FALSE] @@ [last |-> FALSE, obs |-> NoObs, case |-> 0, init |-> TRUE]
            ELSE r @@ [last |-> FALSE, obs |-> NoObs, case |-> 0, init |-> TRUE]
    ELSE IF fault = "QueryConnectionPair"
    THEN NoSubmit(ids, cn, fault) @@ [last |-> FALSE, obs |-> NoObs, case |-> 0, init |-> FALSE]
    ELSE LET s == QueryConnection(pv, "src", ids["src"])
             d == QueryConnection(pv, "dst", ids["dst"])
             k == DecideCase(s, d)
         IN IF fault = "build" /\ CaseCanFail(k)
            THEN NoSubmit(ids, cn, "build") @@ [last |-> FALSE, obs |-> <<s, d>>, case |-> k, init |-> FALSE]
            ELSE LET msgs == CaseMsgs(k, ids, pv)
                     to == SubmitChain(k)
                     res == SendMsgs(cn, pv, to, msgs, send)
                     rec == SendRecord(cn, pv, to, CaseChain(k), msgs, send, res)
                     ret == StepReturn(res, k)
                 IN [success |-> ret.success, last |-> ret.last, err |-> ret.err,
                     ids |-> ids, cn |-> res.conns, sends |-> <<rec>>,
                     faulted |-> rec.refused, obs |-> <<s, d>>, case |-> k, init |-> FALSE]

----------------------------------------------------------------------------
(* CreateOpenConnections                                                    *)

\* BudgetExhausted comparing with >= instead of >
BudgetExhausted_AtLeast(f, m) == f >= m

\* failed > maxRetries
BudgetExhausted(f, m) == f > m

\* ResetFailed leaving the counter as it is
ResetFailed_Keep(f) == f

\* the counter after a success that is not the last step
ResetFailed(f) == 0

\* LastStepReturn going round the loop again instead of returning
LastStepReturn_Continue(dbg, dbgErr) ==
    [pc |-> "loop", result |-> "-"]

\* the case "success && lastStep": the debug queries, then return nil
LastStepReturn(dbg, dbgErr) ==
    IF dbg /\ dbgErr
    THEN [pc |-> "returned", result |-> "debug query"]
    ELSE [pc |-> "returned", result |-> "nil"]

\* LoopSwitch counting a step's error as one more failure instead of returning it
LoopSwitch_CountErrors(r, f, m, dbg, dbgErr) ==
    IF r.success /\ r.last
    THEN LastStepReturn(dbg, dbgErr) @@ [failed |-> f]
    ELSE IF r.success
    THEN [pc |-> "loop", result |-> "-", failed |-> ResetFailed(f)]
    ELSE IF BudgetExhausted(f + 1, m)
    THEN [pc |-> "returned", result |-> "budget", failed |-> f + 1]
    ELSE [pc |-> "loop", result |-> "-", failed |-> f + 1]

\* one iteration of the loop after ExecuteConnectionStep returned r:
\* the new position, return value and failure counter
LoopSwitch(r, f, m, dbg, dbgErr) ==
    IF r.err # "nil"
    THEN [pc |-> "returned", result |-> r.err, failed |-> f]
    ELSE IF r.success /\ r.last
    THEN LastStepReturn(dbg, dbgErr) @@ [failed |-> f]
    ELSE IF r.success
    THEN [pc |-> "loop", result |-> "-", failed |-> ResetFailed(f)]
    ELSE IF BudgetExhausted(f + 1, m)
    THEN [pc |-> "returned", result |-> "budget", failed |-> f + 1]
    ELSE [pc |-> "loop", result |-> "-", failed |-> f + 1]

NoStep ==
    [ran |-> FALSE, success |-> FALSE, last |-> FALSE, err |-> "nil", sends |-> <<>>,
     obs |-> NoObs, case |-> 0, init |-> FALSE, failedBefore |-> 0,
     idsBefore |-> [c \in Chains |-> NoID], dbgErr |-> FALSE,
     latest |-> NoObs, below |-> NoObs]

\* the connection ends a chain can hold before the relayer runs
InitialConns == {<<>>, <<"INIT">>, <<"TRYOPEN">>, <<"OPEN">>}

-----------------------------------------------------------------------------
(* The threads of one path: the loop, its step invocations, their goroutines *)

\* largest number of ExecuteConnectionStep calls explored
MaxCalls == 4

\* the invocations that can be in progress at once
Invocations == {1, 2}

Positions == {"idle", "entered", "send", "write", "query", "submit"}

\* the invocations in progress
Active(pos) == {i \in Invocations : pos[i] # "idle"}

PathIdle ==
    /\ pIds = [c \in Chains |-> FALSE]
    /\ pLoop = "returned"
    /\ pCalls = 0
    /\ pPos = [i \in Invocations |-> "idle"]
    /\ pTarget = [i \in Invocations |-> "-"]
    /\ pTask = [i \in Invocations |-> [c \in Chains |-> "none"]]

\* a loop that starts its next step without waiting for the previous one
LoopMayCall_Always(pos) == TRUE

\* the loop calls ExecuteConnectionStep and goes on only when it has returned
LoopMayCall(pos) == Active(pos) = {}

\* the chain whose identifier InitializeConnection assigns: src's unless only dst's is empty
InitTarget(ids) == IF ~ids["src"] THEN "src" ELSE "dst"

\* the loop calls ExecuteConnectionStep
PathCall ==
    /\ pLoop = "running"
    /\ pCalls < MaxCalls
    /\ LoopMayCall(pPos)
    /\ \E i \in Invocations :
         /\ pPos[i] = "idle"
         /\ \A j \in Invocations : pPos[j] = "idle" => i <= j
         /\ pPos' = [pPos EXCEPT ![i] = "entered"]
         /\ pTask' = [pTask EXCEPT ![i] = [c \in Chains |-> "none"]]
    /\ pCalls' = pCalls + 1
    /\ UNCHANGED <<pIds, pLoop, pTarget>>

\* invocation i reads both identifiers: InitializeConnection when one is
\* empty, else QueryConnectionPair starts its two goroutines
PathBranch(i) ==
    /\ pPos[i] = "entered"
    /\ IF ~pIds["src"] \/ ~pIds["dst"]
       THEN /\ pPos' = [pPos EXCEPT ![i] = "send"]
            /\ pTarget' = [pTarget EXCEPT ![i] = InitTarget(pIds)]
            /\ pTask' = pTask
       ELSE /\ pPos' = [pPos EXCEPT ![i] = "query"]
            /\ pTarget' = pTarget
            /\ pTask' = [pTask EXCEPT ![i] = [c \in Chains |-> "running"]]
    /\ UNCHANGED <<pIds, pLoop, pCalls>>

\* InitializeConnection: SendMsgs returns; on success the identifier is
\* parsed, else the step returns and the loop goes on or returns
PathSend(i) ==
    /\ pPos[i] = "send"
    /\ \E ok \in BOOLEAN, l \in {"running", "returned"} :
         /\ pPos' = [pPos EXCEPT ![i] = IF ok THEN "write" ELSE "idle"]
         /\ pLoop' = IF ok THEN pLoop ELSE l
    /\ UNCHANGED <<pIds, pCalls, pTarget, pTask>>

\* InitializeConnection assigns PathEnd.ConnectionID and the step returns
PathWrite(i) ==
    /\ pPos[i] = "write"
    /\ pIds' = [pIds EXCEPT ![pTarget[i]] = TRUE]
    /\ pPos' = [pPos EXCEPT ![i] = "idle"]
    /\ pTarget' = [pTarget EXCEPT ![i] = "-"]
    /\ UNCHANGED <<pLoop, pCalls, pTask>>

\* goroutine c of invocation i reads c's identifier for its query and returns
PathTaskRead(i, c) ==
    /\ pTask[i][c] = "running"
    /\ pTask' = [pTask EXCEPT ![i][c] = "done"]
    /\ UNCHANGED <<pIds, pLoop, pCalls, pPos, pTarget>>

\* eg.Wait() of QueryConnectionPair returns in invocation i
PathWait(i) ==
    /\ pPos[i] = "query"
    /\ \A c \in Chains : pTask[i][c] = "done"
    /\ pPos' = [pPos EXCEPT ![i] = "submit"]
    /\ UNCHANGED <<pIds, pLoop, pCalls, pTarget, pTask>>

\* the state-table step submits and returns; the loop goes on or returns
PathSubmit(i) ==
    /\ pPos[i] = "submit"
    /\ pPos' = [pPos EXCEPT ![i] = "idle"]
    /\ \E l \in {"running", "returned"} : pLoop' = l
    /\ UNCHANGED <<pIds, pCalls, pTarget, pTask>>

-----------------------------------------------------------------------------
(* The channel-open messages: ordering and versions                         *)

\* ibctypes.Order
Orders == {"NONE", "UNORDERED", "ORDERED"}

\* values of PathEnd.Order in a path configuration
OrderStrings == {"", "ordered", "ORDERED", "Unordered", "UNORDERED", "fifo"}

\* channel versions a counterparty may have
Versions == {"", "ics20-1", "ics20-2"}

defaultTransferVersion == "ics20-1"

\* strings.ToUpper on the configured strings
ToUpper(str) ==
    CASE str = "ordered" -> "ORDERED"
      [] str = "Unordered" -> "UNORDERED"
      [] str = "fifo" -> "FIFO"
      [] OTHER -> str

OrderFromString(order) ==
    CASE order = "UNORDERED" -> "UNORDERED"
      [] order = "ORDERED" -> "ORDERED"
      [] OTHER -> "NONE"

getOrder(order) == OrderFromString(ToUpper(order))

\* NewMsgChannelOpenInit(port, channel, version, order, ...)
ChanInit(order) ==
    [version |-> defaultTransferVersion, ordering |-> getOrder(order), cpVersion |-> "-"]

\* ChanTry taking the ordering from the local PathEnd
ChanTry_LocalOrder(order, dstChanState) ==
    [version |-> defaultTransferVersion, ordering |-> getOrder(order),
     cpVersion |-> dstChanState.version]

\* NewMsgChannelOpenTry(port, channel, version, order, ..., counterpartyVersion, ...)
ChanTry(order, dstChanState) ==
    [version |-> defaultTransferVersion, ordering |-> dstChanState.ordering,
     cpVersion |-> dstChanState.version]

\* NewMsgChannelOpenAck(port, channel, counterpartyVersion, ...)
ChanAck(dstChanState) ==
    [version |-> "-", ordering |-> "-", cpVersion |-> dstChanState.version]

ChanKinds == {"ChanInit", "ChanTry", "ChanAck"}

\* no channel message is being constructed
ChanIdle ==
    /\ chKind = "-"
    /\ chOrder = ""
    /\ chObs = [ordering |-> "NONE", version |-> ""]
    /\ chOut = [version |-> "-", ordering |-> "-", cpVersion |-> "-"]

\* a channel-open constructor is called on the local PathEnd
BuildChan ==
    /\ chKind = "-"
    /\ \E k \in ChanKinds :
         /\ chKind' = k
         /\ chOut' = CASE k = "ChanInit" -> ChanInit(chOrder)
                       [] k = "ChanTry" -> ChanTry(chOrder, chObs)
                       [] k = "ChanAck" -> ChanAck(chObs)
    /\ UNCHANGED <<chOrder, chObs>>

-----------------------------------------------------------------------------
(* The lite commands and the map of running lite clients                    *)

ChainIDs == {"ibc0", "ibc1", "ibc9"}

\* the chains relayer.Exists finds in the configuration
Configured == {"ibc0", "ibc1"}

\* how fetching and decoding the trust options from the url can end
TrustFetch == {"ok", "http.Get", "ReadAll", "Unmarshal"}

\* how Stop and Cleanup can end: a panic only on what a failed creation left
DeleteOutcomes == {"ok", "Cleanup", "panic"}

NoCmd ==
    [cmd |-> "-", chain |-> "-", err |-> "-", mapBefore |-> [c \in ChainIDs |-> "none"],
     clientBefore |-> [c \in ChainIDs |-> "none"], inputsOK |-> FALSE]

\* the process has started: the map is empty
LiteIdle ==
    /\ lcMap = [c \in ChainIDs |-> "none"]
    /\ lcClient = [c \in ChainIDs |-> "none"]
    /\ lcCrashed = FALSE
    /\ lcLast = NoCmd

\* lcMap[chainID], err = chain.NewLiteClient(...): the assignment is made
\* whatever err is
StoredOnError(old) == "failed"

\* liteStartCmd: [err, map, client]
liteStart(map, client, chainID, getChainOK, fetch, createOK) ==
    IF chainID \notin Configured
    THEN [err |-> "not configured", map |-> map, client |-> client]
    ELSE IF map[chainID] # "none"
    THEN [err |-> "already running", map |-> map, client |-> client]
    ELSE IF ~getChainOK
    THEN [err |-> "GetChain", map |-> map, client |-> client]
    ELSE IF fetch # "ok"
    THEN [err |-> fetch, map |-> map, client |-> client]
    ELSE IF ~createOK
    THEN [err |-> "NewLiteClient",
          map |-> [map EXCEPT ![chainID] = StoredOnError(@)], client |-> client]
    ELSE [err |-> "nil", map |-> [map EXCEPT ![chainID] = "client"],
          client |-> [client EXCEPT ![chainID] = "running"]]

\* liteDeleteCmd returning before delete(lcMap, chainID) is reached
DeleteEntry_Keep(map, chainID) == map

\* delete(lcMap, chainID)
DeleteEntry(map, chainID) == [map EXCEPT ![chainID] = "none"]

\* liteDeleteCmd: [err, map, client]
liteDelete(map, client, chainID, outcome) ==
    IF map[chainID] = "none"
    THEN [err |-> "nil", map |-> DeleteEntry(map, chainID), client |-> client]
    ELSE IF map[chainID] = "failed"
    THEN IF outcome = "ok"
         THEN [err |-> "nil", map |-> DeleteEntry(map, chainID), client |-> client]
         ELSE [err |-> outcome, map |-> map, client |-> client]
    ELSE IF outcome = "ok"
    THEN [err |-> "nil", map |-> DeleteEntry(map, chainID),
          client |-> [client EXCEPT ![chainID] = "cleaned"]]
    ELSE [err |-> "Cleanup", map |-> map,
          client |-> [client EXCEPT ![chainID] = "stopped"]]

\* `lite start [chain-id]` is run
LiteStart ==
    /\ ~lcCrashed
    /\ \E chainID \in ChainIDs, getChainOK \in BOOLEAN, fetch \in TrustFetch,
          createOK \in BOOLEAN :
         \E r \in {liteStart(lcMap, lcClient, chainID, getChainOK, fetch, createOK)} :
            /\ lcMap' = r.map
            /\ lcClient' = r.client
            /\ lcLast' = [cmd |-> "start", chain |-> chainID, err |-> r.err,
                          mapBefore |-> lcMap, clientBefore |-> lcClient,
                          inputsOK |-> getChainOK /\ fetch = "ok" /\ createOK]
    /\ UNCHANGED lcCrashed

\* `lite delete [chain-id]` is run
LiteDelete ==
    /\ ~lcCrashed
    /\ \E chainID \in ChainIDs, outcome \in DeleteOutcomes :
         /\ outcome = "panic" => lcMap[chainID] = "failed"
         /\ \E r \in {liteDelete(lcMap, lcClient, chainID, outcome)} :
              /\ lcMap' = r.map
              /\ lcClient' = r.client
              /\ lcCrashed' = (r.err = "panic")
              /\ lcLast' = [cmd |-> "delete", chain |-> chainID, err |-> r.err,
                            mapBefore |-> lcMap, clientBefore |-> lcClient,
                            inputsOK |-> outcome = "ok"]

-----------------------------------------------------------------------------
(* The proof-height field of the constructed messages                       *)

\* width of the proof-height arithmetic explored (uint64 in the source)
HeightBits == 5

HeightModulus == 2 ^ HeightBits

\* heights come from the chains as int64: the largest is 2^(width-1) - 1
MaxHeight == 2 ^ (HeightBits - 1) - 1

Heights == 0..MaxHeight

\* uint64 addition
AddU(a, b) == (a + b) % HeightModulus

ConnTryProofHeight(ProofHeight) == AddU(ProofHeight, 1)

ConnAckProofHeight(ProofHeight) == AddU(ProofHeight, 1)

ConnConfirmProofHeight(ProofHeight) == AddU(ProofHeight, 1)

ChanTryProofHeight(ProofHeight) == AddU(ProofHeight, 1)

ChanAckProofHeight(ProofHeight) == AddU(ProofHeight, 1)

ChanConfirmProofHeight(ProofHeight) == AddU(ProofHeight, 1)

ChanCloseConfirmProofHeight(ProofHeight) == AddU(ProofHeight, 1)

MsgRecvPacketProofHeight(proofHeight) == AddU(proofHeight, 1)

MsgTimeoutProofHeight(proofHeight) == AddU(proofHeight, 1)

MsgAckProofHeight(proofHeight) == AddU(proofHeight, 1)

\* PacketMsg adding 1 itself before MsgRecvPacket adds it
PacketMsgProofHeight_AddsTwice(ProofHeight) == MsgRecvPacketProofHeight(AddU(ProofHeight, 1))

\* PacketMsg hands dstCommitRes.ProofHeight to MsgRecvPacket as it is
PacketMsgProofHeight(ProofHeight) == MsgRecvPacketProofHeight(ProofHeight)

\* the constructors whose message carries a proof
ProofKinds == {"ConnTry", "ConnAck", "ConnConfirm", "ChanTry", "ChanAck", "ChanConfirm",
               "ChanCloseConfirm", "MsgRecvPacket", "MsgTimeout", "MsgAck", "PacketMsg"}

\* the constructors whose message carries none
PlainKinds == {"ConnInit", "ChanInit", "ChanCloseInit"}

\* the proof-height field of the message constructor k builds from height h
ProofHeightField(k, h) ==
    CASE k = "ConnTry" -> ConnTryProofHeight(h)
      [] k = "ConnAck" -> ConnAckProofHeight(h)
      [] k = "ConnConfirm" -> ConnConfirmProofHeight(h)
      [] k = "ChanTry" -> ChanTryProofHeight(h)
      [] k = "ChanAck" -> ChanAckProofHeight(h)
      [] k = "ChanConfirm" -> ChanConfirmProofHeight(h)
      [] k = "ChanCloseConfirm" -> ChanCloseConfirmProofHeight(h)
      [] k = "MsgRecvPacket" -> MsgRecvPacketProofHeight(h)
      [] k = "MsgTimeout" -> MsgTimeoutProofHeight(h)
      [] k = "MsgAck" -> MsgAckProofHeight(h)
      [] k = "PacketMsg" -> PacketMsgProofHeight(h)
      [] OTHER -> "-"

\* no message is being constructed
MsgIdle ==
    /\ msgKind = "-"
    /\ msgH = 0
    /\ msgField = "-"

\* a constructor is called with a proof fetched at height msgH
BuildMsg ==
    /\ msgKind = "-"
    /\ \E k \in ProofKinds \cup PlainKinds :
         /\ msgKind' = k
         /\ msgField' = ProofHeightField(k, msgH)
    /\ UNCHANGED msgH

-----------------------------------------------------------------------------
(* The paired fetches: two goroutines under one errgroup.Group              *)

FetchOps == {"QueryLatestHeights", "QueryConnectionPair", "QueryChannelPair",
             "GetIBCUpdateHeaders", "GetLightSignedHeadersAtHeights"}

\* what a provider call can do
FetchOutcomes == {"ok", "fail"}

NoRet == [src |-> "-", dst |-> "-", err |-> "-"]

\* no paired fetch is being called
FetchIdle ==
    /\ egOp = "-"
    /\ egPc = "idle"
    /\ egTask = [c \in Chains |-> "unstarted"]
    /\ egTaskErr = [c \in Chains |-> "-"]
    /\ egVal = [c \in Chains |-> "zero"]
    /\ egErr = "nil"
    /\ egOrder = <<>>
    /\ egWriters = [c \in Chains |-> {}]
    /\ egRet = NoRet

\* the named result the goroutine fetching from chain c assigns
TaskTarget(c) == c

\* errgroup's errOnce: the error of the first goroutine to return one is kept
RecordError(e, c) == IF e = "nil" THEN c ELSE e

\* Wait returning as soon as one goroutine is done
WaitReady_Any(t) == \E c \in Chains : t[c] = "done"

\* eg.Wait() blocks until every goroutine started with eg.Go has returned
WaitReady(t) == \A c \in Chains : t[c] = "done"

\* every paired fetch ending in "err = eg.Wait(); return"
FetchReturnValue_PassThrough(op, val, err) ==
    [src |-> val["src"], dst |-> val["dst"], err |-> err]

\* the return statement of each paired fetch after eg.Wait()
FetchReturnValue(op, val, err) ==
    IF op \in {"QueryLatestHeights", "QueryConnectionPair"}
    THEN [src |-> val["src"], dst |-> val["dst"], err |-> err]
    ELSE IF err # "nil"
    THEN [src |-> "zero", dst |-> "zero", err |-> err]
    ELSE [src |-> val["src"], dst |-> val["dst"], err |-> err]

\* a paired fetch is called: the group is created
FetchCall ==
    /\ egPc = "idle"
    /\ \E op \in FetchOps : egOp' = op
    /\ egPc' = "go1"
    /\ UNCHANGED <<egTask, egTaskErr, egVal, egErr, egOrder, egWriters, egRet>>

\* eg.Go: the caller starts the goroutine for src, then the one for dst
FetchGo ==
    /\ egPc \in {"go1", "go2"}
    /\ egTask' = [egTask EXCEPT ![IF egPc = "go1" THEN "src" ELSE "dst"] = "running"]
    /\ egPc' = IF egPc = "go1" THEN "go2" ELSE "wait"
    /\ UNCHANGED <<egOp, egTaskErr, egVal, egErr, egOrder, egWriters, egRet>>

\* goroutine c: the provider call returns and its results are assigned
TaskFetch(c) ==
    /\ egTask[c] = "running"
    /\ \E o \in FetchOutcomes :
         /\ egVal' = [egVal EXCEPT ![TaskTarget(c)] = IF o = "ok" THEN c ELSE "zero"]
         /\ egTaskErr' = [egTaskErr EXCEPT ![c] = IF o = "ok" THEN "nil" ELSE "fail"]
    /\ egWriters' = [egWriters EXCEPT ![TaskTarget(c)] = @ \cup {c}]
    /\ egTask' = [egTask EXCEPT ![c] = "fetched"]
    /\ UNCHANGED <<egOp, egPc, egErr, egOrder, egRet>>

\* goroutine c returns err to the group
TaskReturn(c) ==
    /\ egTask[c] = "fetched"
    /\ egErr' = IF egTaskErr[c] = "fail" THEN RecordError(egErr, c) ELSE egErr
    /\ egOrder' = IF egTaskErr[c] = "fail" THEN Append(egOrder, c) ELSE egOrder
    /\ egTask' = [egTask EXCEPT ![c] = "done"]
    /\ UNCHANGED <<egOp, egPc, egTaskErr, egVal, egWriters, egRet>>

\* eg.Wait() returns and the paired fetch returns to its caller
FetchWait ==
    /\ egPc = "wait"
    /\ WaitReady(egTask)
    /\ egRet' = FetchReturnValue(egOp, egVal, egErr)
    /\ egPc' = "returned"
    /\ UNCHANGED <<egOp, egTask, egTaskErr, egVal, egErr, egOrder, egWriters>>

\* CreateOpenConnections is not running
MainParked ==
    /\ connID = [c \in Chains |-> NoID]
    /\ conns = [c \in Chains |-> <<>>]
    /\ maxRetries = 0
    /\ debug = FALSE
    /\ clientsOK = TRUE
    /\ pc = "start"
    /\ result = "-"
    /\ failed = 0
    /\ last = NoStep
    /\ attempts = 0
    /\ nSuccess = 0
    /\ consec = 0
    /\ accepted = <<>>
    /\ nSubmitted = 0
    /\ built = [p \in States \X States |-> {}]
    /\ envFault = FALSE
    /\ interfered = FALSE
    /\ start = [ids |-> connID, conns |-> conns]
    /\ prev = conns
    /\ lagged = FALSE
    /\ stopRequested = FALSE

InitFetch == MainParked /\ FetchIdle /\ MsgIdle /\ PathIdle /\ ChanIdle /\ LiteIdle

NextFetch ==
    \/ FetchCall /\ UNCHANGED besideFetch
    \/ FetchGo /\ UNCHANGED besideFetch
    \/ \E c \in Chains : TaskFetch(c) /\ UNCHANGED besideFetch
    \/ \E c \in Chains : TaskReturn(c) /\ UNCHANGED besideFetch
    \/ FetchWait /\ UNCHANGED besideFetch

SpecFetch == InitFetch /\ [][NextFetch]_vars

InitMsgs ==
    /\ MainParked /\ FetchIdle /\ PathIdle /\ ChanIdle /\ LiteIdle
    /\ msgKind = "-"
    /\ msgH \in Heights
    /\ msgField = "-"

NextMsgs == BuildMsg /\ UNCHANGED besideMsgs

SpecMsgs == InitMsgs /\ [][NextMsgs]_vars

Init ==
    /\ connID \in [Chains -> {NoID, <<1>>}]
    /\ conns \in [Chains -> InitialConns]
    /\ maxRetries \in 0..MaxRetriesBound
    /\ debug \in BOOLEAN
    /\ clientsOK \in BOOLEAN
    /\ pc = "start"
    /\ result = "-"
    /\ failed = 0
    /\ last = NoStep
    /\ attempts = 0
    /\ nSuccess = 0
    /\ consec = 0
    /\ accepted = <<>>
    /\ nSubmitted = 0
    /\ built = [p \in States \X States |-> {}]
    /\ envFault = FALSE
    /\ interfered = FALSE
    /\ start = [ids |-> connID, conns |-> conns]
    /\ prev = conns
    /\ lagged = FALSE
    /\ stopRequested = FALSE
    /\ FetchIdle
    /\ MsgIdle
    /\ PathIdle
    /\ ChanIdle
    /\ LiteIdle

\* ValidateClientPaths, then the ticker and the counter are set up
Start ==
    /\ pc = "start"
    /\ IF clientsOK
       THEN pc' = "loop" /\ result' = result
       ELSE pc' = "returned" /\ result' = "invalid client paths"
    /\ UNCHANGED <<connID, conns, maxRetries, debug, clientsOK, failed, last, attempts,
                   nSuccess, consec, accepted, nSubmitted, built, envFault, interfered, start,
                   prev, lagged>>
    /\ UNCHANGED <<stopRequested, besideMain>>

\* the inputs of a step that can make a difference to it: SendMsgs is reached
\* only when the headers were fetched, the events are parsed only after an
\* accepted initiation, the debug queries are made only after the last step
StepSendOutcomes(fault) ==
    IF fault \in {"NewSyncHeaders", "GetTrustedHeaders"} THEN {"ok"} ELSE SendOutcomes

StepParseOutcomes(ids, send) ==
    IF NeedsInitialize(ids) /\ send = "ok" THEN BOOLEAN ELSE {TRUE}

DebugOutcomes(r, dbg) ==
    IF r.err = "nil" /\ r.success /\ r.last /\ dbg THEN BOOLEAN ELSE {FALSE}

\* the pair of states the connection ends ids have in on-chain state cn
StatePair(cn, ids) ==
    <<QueryConnection(cn, "src", ids["src"]), QueryConnection(cn, "dst", ids["dst"])>>

\* a transaction accepted on a chain makes a block: what was the chain's
\* latest state is now its state one block below
BlockOf(cn, cn2, pv) ==
    [c \in Chains |-> IF cn2[c] # cn[c] THEN cn[c] ELSE pv[c]]

\* one iteration of the loop: ExecuteConnectionStep and the switch on its result
Tick ==
    /\ pc = "loop"
    /\ \E fault \in Faults :
         \E send \in StepSendOutcomes(fault) :
         \E parseOK \in StepParseOutcomes(connID, send) :
         \E r \in {ExecuteConnectionStep(connID, conns, prev, fault, send, parseOK)} :
         \E dbgErr \in DebugOutcomes(r, debug) :
         \E lp \in {LoopSwitch(r, failed, maxRetries, debug, dbgErr)} :
         LET dbgUsed == r.err = "nil" /\ r.success /\ r.last /\ debug /\ dbgErr
         IN /\ connID' = r.ids
            /\ conns' = r.cn
            /\ prev' = BlockOf(conns, r.cn, prev)
            /\ lagged' = (lagged \/ prev # conns)
            /\ pc' = lp.pc
            /\ result' = lp.result
            /\ failed' = lp.failed
            /\ last' = [ran |-> TRUE, success |-> r.success, last |-> r.last, err |-> r.err,
                        sends |-> r.sends, obs |-> r.obs, case |-> r.case, init |-> r.init,
                        failedBefore |-> failed, idsBefore |-> connID, dbgErr |-> dbgUsed,
                        latest |-> IF r.obs = NoObs THEN NoObs ELSE StatePair(conns, connID),
                        below |-> IF r.obs = NoObs THEN NoObs ELSE StatePair(prev, connID)]
            /\ attempts' = attempts + 1
            /\ nSuccess' = IF r.success THEN nSuccess + 1 ELSE nSuccess
            /\ consec' = IF r.success THEN 0
                         ELSE IF r.err = "nil" THEN consec + 1 ELSE consec
            /\ accepted' = IF Len(r.sends) = 1 /\ r.sends[1].success
                           THEN Append(accepted, <<r.sends[1].to, r.sends[1].msgs[2].type>>)
                           ELSE accepted
            /\ nSubmitted' = nSubmitted + Len(r.sends)
            /\ built' = IF r.obs # NoObs /\ Len(r.sends) = 1 /\ Len(r.sends[1].msgs) > 0
                        THEN [built EXCEPT ![r.obs] = @ \cup {r.sends[1].msgs[2].type}]
                        ELSE built
            /\ envFault' = (envFault \/ r.faulted \/ dbgUsed)
    /\ UNCHANGED <<maxRetries, debug, clientsOK, interfered, start>>
    /\ UNCHANGED <<stopRequested, besideMain>>

\* another relayer of the same path advances the handshake on chain c
OtherRelayer ==
    /\ pc = "loop"
    /\ \E c \in Chains :
         \E m \in {ConnTry(connID, prev, c), ConnAck(connID, prev, c),
                   ConnConfirm(connID, prev, c)} :
            /\ connID[c] # NoID
            /\ BundleValid(conns, prev, c, <<UpdateClient(c, Other(c)), m>>)
            /\ conns' = MsgApply(conns, c, m)
            /\ prev' = BlockOf(conns, MsgApply(conns, c, m), prev)
    /\ interfered' = TRUE
    /\ UNCHANGED <<connID, maxRetries, debug, clientsOK, pc, result, failed, last, attempts,
                   nSuccess, consec, accepted, nSubmitted, built, envFault, start, lagged>>
    /\ UNCHANGED <<stopRequested, besideMain>>

\* chain c commits a further block: its latest change is now below its latest height
NewBlock ==
    /\ pc = "loop"
    /\ \E c \in Chains :
         /\ prev[c] # conns[c]
         /\ prev' = [prev EXCEPT ![c] = conns[c]]
    /\ UNCHANGED <<connID, conns, maxRetries, debug, clientsOK, pc, result, failed, last,
                   attempts, nSuccess, consec, accepted, nSubmitted, built, envFault,
                   interfered, start, lagged>>
    /\ UNCHANGED <<stopRequested, besideMain>>

Next == Start \/ Tick \/ OtherRelayer \/ NewBlock

Spec == Init /\ [][Next]_vars

\* the operator asks the loop, waiting for its next tick, to stop
OperatorStop ==
    /\ pc = "loop"
    /\ attempts > 0
    /\ ~stopRequested
    /\ stopRequested' = TRUE
    /\ UNCHANGED <<connID, conns, maxRetries, debug, clientsOK, pc, result, failed, last,
                   attempts, nSuccess, consec, accepted, nSubmitted, built, envFault,
                   interfered, start, prev, lagged>>
    /\ UNCHANGED besideMain

\* CreateOpenConnections called for a new path, with an operator who may stop it
InitStop ==
    /\ Init
    /\ connID = [c \in Chains |-> NoID]
    /\ conns = [c \in Chains |-> <<>>]

\* CreateOpenConnections is called for a path, seen as threads
InitPath ==
    /\ MainParked /\ FetchIdle /\ MsgIdle /\ ChanIdle /\ LiteIdle
    /\ pIds \in [Chains -> BOOLEAN]
    /\ pLoop = "running"
    /\ pCalls = 0
    /\ pPos = [i \in Invocations |-> "idle"]
    /\ pTarget = [i \in Invocations |-> "-"]
    /\ pTask = [i \in Invocations |-> [c \in Chains |-> "none"]]

NextPath ==
    \/ PathCall /\ UNCHANGED besidePath
    \/ \E i \in Invocations : PathBranch(i) /\ UNCHANGED besidePath
    \/ \E i \in Invocations : PathSend(i) /\ UNCHANGED besidePath
    \/ \E i \in Invocations : PathWrite(i) /\ UNCHANGED besidePath
    \/ \E i \in Invocations, c \in Chains : PathTaskRead(i, c) /\ UNCHANGED besidePath
    \/ \E i \in Invocations : PathWait(i) /\ UNCHANGED besidePath
    \/ \E i \in Invocations : PathSubmit(i) /\ UNCHANGED besidePath

SpecPath == InitPath /\ [][NextPath]_vars

\* a channel-open constructor is about to be called
InitChan ==
    /\ MainParked /\ FetchIdle /\ MsgIdle /\ PathIdle /\ LiteIdle
    /\ chKind = "-"
    /\ chOrder \in OrderStrings
    /\ chObs \in [ordering : Orders, version : Versions]
    /\ chOut = [version |-> "-", ordering |-> "-", cpVersion |-> "-"]

NextChan == BuildChan /\ UNCHANGED besideChan

SpecChan == InitChan /\ [][NextChan]_vars

\* the relayer process has started and runs lite commands
InitLite == MainParked /\ FetchIdle /\ MsgIdle /\ PathIdle /\ ChanIdle /\ LiteIdle

NextLite ==
    \/ LiteStart /\ UNCHANGED besideLite
    \/ LiteDelete /\ UNCHANGED besideLite

SpecLite == InitLite /\ [][NextLite]_vars

NextStop == Start \/ Tick \/ NewBlock \/ OperatorStop

SpecStop == InitStop /\ [][NextStop]_vars

----------------------------------------------------------------------------
(* Properties                                                               *)

BothEmpty == [c \in Chains |-> NoID]

SrcState == QueryConnection(conns, "src", connID["src"])
DstState == QueryConnection(conns, "dst", connID["dst"])
BothOpen == SrcState = "OPEN" /\ DstState = "OPEN"

\* the latest step handed a non-empty bundle to SendMsgs
Submitted == last.ran /\ Len(last.sends) = 1 /\ Len(last.sends[1].msgs) > 0

\* the run was left alone: nobody else wrote to the chains, no query failed,
\* no chain refused a transaction it could execute, and every step found the
\* chains' latest changes already below their latest heights
Undisturbed == clientsOK /\ ~interfered /\ ~envFault /\ ~lagged

\* C1: starting with both PathEnd connection identifiers empty, with no other
\* actor and every submission accepted, CreateOpenConnections returns nil with
\* both connections OPEN and both identifiers set, after exactly the four
\* transactions Init, Try, Ack, Confirm in that order.
C1_EndToEndFromEmpty ==
    (start.ids = BothEmpty /\ Undisturbed /\ pc = "returned") =>
        /\ result = "nil"
        /\ BothOpen
        /\ connID["src"] # NoID /\ connID["dst"] # NoID
        /\ nSubmitted = 4
        /\ [i \in 1..Len(accepted) |-> accepted[i][2]] =
               <<"ConnOpenInit", "ConnOpenTry", "ConnOpenAck", "ConnOpenConfirm">>

\* the decision table as the claim C2 states it
TablePairs ==
    {<<"INIT", "INIT">>, <<"INIT", "TRYOPEN">>, <<"TRYOPEN", "TRYOPEN">>,
     <<"TRYOPEN", "INIT">>, <<"TRYOPEN", "OPEN">>, <<"OPEN", "TRYOPEN">>}

TableType(p) ==
    CASE p = <<"INIT", "INIT">> -> "ConnOpenTry"
      [] p \in {<<"INIT", "TRYOPEN">>, <<"TRYOPEN", "TRYOPEN">>, <<"TRYOPEN", "INIT">>} -> "ConnOpenAck"
      [] p \in {<<"TRYOPEN", "OPEN">>, <<"OPEN", "TRYOPEN">>} -> "ConnOpenConfirm"

TableChain(p) ==
    IF p \in {<<"TRYOPEN", "INIT">>, <<"OPEN", "TRYOPEN">>} THEN "dst" ELSE "src"

\* C2: with both identifiers set, every observed pair of the decision table
\* matches exactly one case of the switch, the step builds the message type
\* the table names, for the chain the table names, and every run of the step
\* on the same observed pair builds the same message type.
C2_DecisionTableUnique ==
    /\ \A p \in TablePairs : built[p] \subseteq {TableType(p)}
    /\ (last.ran /\ last.obs \in TablePairs) =>
          /\ Cardinality(Matching(last.obs[1], last.obs[2])) = 1
          /\ Len(last.sends) = 1 =>
                /\ Len(last.sends[1].msgs) = 2
                /\ last.sends[1].msgs[2].type = TableType(last.obs)
                /\ last.sends[1].msgs[2].pe = TableChain(last.obs)

\* C2 witness: the step ran again on INIT/TRYOPEN and built ConnOpenAck again
C2_Witness ==
    /\ Submitted
    /\ last.obs = <<"INIT", "TRYOPEN">>
    /\ last.failedBefore >= 1
    /\ built[last.obs] = {"ConnOpenAck"}

\* C3: every bundle a state-table step computes is submitted to the chain it
\* was built for: a bundle built from src's PathEnd goes to src, one built
\* from dst's PathEnd goes to dst.
C3_SubmittedToBuiltChain ==
    (Submitted /\ ~last.init) => last.sends[1].to = last.sends[1].builtFor

\* C4: crossing hellos: a step observing INIT/INIT issues ConnOpenTry on src,
\* and a run started at INIT/INIT whose submissions are accepted ends with
\* both connections OPEN.
C4_CrossingHellosProgress ==
    /\ (Submitted /\ last.obs = <<"INIT", "INIT">>) =>
          /\ last.sends[1].msgs[2].type = "ConnOpenTry"
          /\ last.sends[1].to = "src"
    /\ ( /\ start.ids = [c \in Chains |-> <<1>>]
         /\ start.conns = [c \in Chains |-> <<"INIT">>]
         /\ Undisturbed
         /\ pc = "returned" ) => (result = "nil" /\ BothOpen)

TerminalPairs == {<<"TRYOPEN", "OPEN">>, <<"OPEN", "TRYOPEN">>}

\* C5 as stated: a step that observes TRYOPEN/OPEN or OPEN/TRYOPEN always
\* returns terminal = true.  Steps whose bundle went to the other chain than
\* the one it was built for are left out, so that a violation shows a step
\* that submitted where the table says.
C5_TerminalAlways ==
    (last.ran /\ last.obs \in TerminalPairs /\ last.sends[1].to = last.sends[1].builtFor)
        => last.last

\* C5 as amended: a step that observes TRYOPEN/OPEN or OPEN/TRYOPEN submits
\* one bundle and returns terminal = true exactly when SendMsgs reports
\* success; when the submission fails it returns success = false and
\* terminal = false.
C5_TerminalWhenAccepted ==
    (last.ran /\ last.obs \in TerminalPairs) =>
        /\ Len(last.sends) = 1
        /\ last.last = last.sends[1].success
        /\ last.success = last.sends[1].success

\* C5 witness: OPEN/TRYOPEN observed, the confirm accepted, terminal returned
C5_Witness ==
    last.ran /\ last.obs = <<"OPEN", "TRYOPEN">> /\ last.sends[1].success /\ last.last

\* C6: a step returns terminal = true only together with success = true, only
\* for an accepted ConnOpenConfirm of a state-table step that observed exactly
\* one side short of OPEN, and then both connections are OPEN; so they are
\* whenever CreateOpenConnections returns nil.
C6_TerminalMeansOpen ==
    /\ (last.ran /\ last.last) =>
          /\ last.success
          /\ ~last.init
          /\ last.obs \in TerminalPairs
          /\ last.sends[1].success
          /\ last.sends[1].msgs[2].type = "ConnOpenConfirm"
          /\ BothOpen
    /\ (pc = "returned" /\ result = "nil") => (last.success /\ last.last /\ BothOpen)

\* C6 witness: CreateOpenConnections returned nil
C6_Witness == pc = "returned" /\ result = "nil" /\ BothOpen

TerminalSeen == last.ran /\ last.success /\ last.last

\* C7 as stated: after a step returned success and terminal,
\* CreateOpenConnections has returned nil.
C7_ReturnsNilAfterTerminal ==
    TerminalSeen => (pc = "returned" /\ result = "nil")

\* C7 as amended: after a step returned success and terminal,
\* CreateOpenConnections runs no further step and has returned: nil, or, with
\* the debug flag set, the error of a failed debug query.
C7_StopsAfterTerminal ==
    /\ [](TerminalSeen =>
            /\ pc = "returned"
            /\ result \in {"nil", "debug query"}
            /\ result = "debug query" <=> (debug /\ last.dbgErr))
    /\ [][TerminalSeen => (attempts' = attempts /\ pc' = "returned")]_vars

\* C7 witness: terminal step with the debug flag set and the debug queries fine
C7_Witness == TerminalSeen /\ debug /\ result = "nil"

C9_ConsecutiveFailures ==
    /\ failed <= maxRetries + 1
    /\ pc = "loop" => failed = consec
    /\ (pc = "returned" /\ result = "budget") => (failed = consec /\ consec > maxRetries)

\* C9 witness: a success that was not the last step reset a non-zero counter
C9_Witness ==
    last.ran /\ last.success /\ ~last.last /\ last.failedBefore > 0 /\ failed = 0

\* the latest step's submission came back with success = false
Rejected == last.ran /\ Len(last.sends) = 1 /\ ~last.sends[1].success

\* C10 as stated: a rejected submission, with or without an error, is counted
\* toward the budget and does not make CreateOpenConnections return at once.
C10_RejectionCounted ==
    Rejected =>
        /\ failed = last.failedBefore + 1
        /\ pc = "loop" \/ (pc = "returned" /\ result = "budget")

\* C10 as amended: a submission rejected with a nil error is counted, and
\* CreateOpenConnections goes on unless the counter now exceeds maxRetries,
\* when it returns the budget error; a submission that fails with an error
\* makes CreateOpenConnections return that error at once, uncounted.
C10_RejectionCountedUnlessError ==
    /\ (Rejected /\ last.sends[1].err = "nil") =>
          /\ failed = last.failedBefore + 1
          /\ IF failed > maxRetries
             THEN pc = "returned" /\ result = "budget"
             ELSE pc = "loop"
    /\ (Rejected /\ last.sends[1].err # "nil") =>
          /\ failed = last.failedBefore
          /\ pc = "returned" /\ result = last.sends[1].err

\* C10 witness: a rejection without error, counted, and the loop goes on
C10_Witness ==
    Rejected /\ last.sends[1].err = "nil" /\ pc = "loop" /\ failed = last.failedBefore + 1

\* the errors of the queries a step makes before it builds anything
HardErrors == {"NewSyncHeaders", "GetTrustedHeaders", "QueryConnectionPair"}

HardErrorSeen == last.ran /\ last.err \in HardErrors

\* C11: a step that fails in header synchronisation, the trusted-header fetch
\* or the connection-pair query makes CreateOpenConnections return that error
\* at once: nothing was submitted, the failure counter is as before, and no
\* further step runs.
C11_HardErrorAborts ==
    /\ [](HardErrorSeen =>
            /\ pc = "returned"
            /\ result = last.err
            /\ failed = last.failedBefore
            /\ Len(last.sends) = 0)
    /\ [][HardErrorSeen => attempts' = attempts]_vars

\* C11 witness: the pair query failed after counted failures; the counter kept its value
C11_Witness ==
    HardErrorSeen /\ last.err = "QueryConnectionPair" /\ failed > 0 /\ pc = "returned"

\* C12: with both identifiers set and an observed pair outside the decision
\* table, the step reports an error, submits nothing, and
\* CreateOpenConnections returns that error without another attempt.
C12_NoMatchIsError ==
    (last.ran /\ last.obs # NoObs /\ last.obs \notin TablePairs) =>
        /\ Len(last.sends) = 0
        /\ last.err # "nil"
        /\ pc = "returned" /\ result = last.err

HandshakeTypes == {"ConnOpenInit", "ConnOpenTry", "ConnOpenAck", "ConnOpenConfirm"}

\* C13: every bundle of messages a step submits is UpdateClient, for the
\* receiving chain's client and carrying the counterparty's header, followed
\* by the handshake message (the empty bundle of C12 is left aside here).
C13_UpdateClientPrefix ==
    (last.ran /\ Len(last.sends) = 1 /\ Len(last.sends[1].msgs) > 0) =>
        /\ Len(last.sends[1].msgs) = 2
        /\ last.sends[1].msgs[1].type = "UpdateClient"
        /\ last.sends[1].msgs[1].pe = last.sends[1].to
        /\ last.sends[1].msgs[1].header = Other(last.sends[1].to)
        /\ last.sends[1].msgs[2].type \in HandshakeTypes

\* C14: the connection pair is queried, and a state-table message built, only
\* with both PathEnd identifiers set; a ConnOpenTry always names the
\* counterparty's connection identifier, and an Ack or Confirm its own.
C14_IdentifiersResolved ==
    /\ (last.ran /\ last.obs # NoObs) =>
          (last.idsBefore["src"] # NoID /\ last.idsBefore["dst"] # NoID)
    /\ Submitted =>
          /\ last.sends[1].msgs[2].type = "ConnOpenTry" =>
                last.sends[1].msgs[2].cpConnID # NoID
          /\ last.sends[1].msgs[2].type \in {"ConnOpenAck", "ConnOpenConfirm"} =>
                last.sends[1].msgs[2].connID # NoID

\* C14 witness: InitializeConnection submitted a ConnOpenTry on dst naming src's identifier
C14_Witness ==
    /\ Submitted /\ last.init
    /\ last.sends[1].msgs[2].type = "ConnOpenTry"
    /\ last.sends[1].to = "dst"
    /\ last.sends[1].msgs[2].cpConnID = last.idsBefore["src"]
    /\ last.idsBefore["dst"] = NoID

\* C15: a PathEnd connection identifier that is set never changes, and one is
\* set only by an InitializeConnection step whose ConnOpenInit or ConnOpenTry
\* was accepted on that chain.
C15_IdentifierWrittenOnce ==
    [][\A c \in Chains :
         /\ connID[c] # NoID => connID'[c] = connID[c]
         /\ connID'[c] # connID[c] =>
               /\ last'.init /\ last'.success
               /\ last'.sends[1].success
               /\ last'.sends[1].to = c
               /\ last'.sends[1].msgs[2].type \in {"ConnOpenInit", "ConnOpenTry"}]_vars

\* C15 witness: both identifiers were assigned by the run, dst's after src's
C15_Witness ==
    /\ start.ids = BothEmpty
    /\ connID["src"] # NoID /\ connID["dst"] # NoID
    /\ last.init /\ last.idsBefore["src"] = connID["src"]

\* C16: a step that returns an error or success = false leaves both PathEnd
\* identifiers as they were.
C16_FailedStepKeepsIdentifiers ==
    (last.ran /\ (last.err # "nil" \/ ~last.success)) => connID = last.idsBefore

\* C16 witness: the initiation was accepted on chain but its events did not
\* parse; the step returned the error and the identifier is still empty
C16_Witness ==
    /\ last.ran /\ last.init /\ last.err = "parse"
    /\ last.sends[1].success
    /\ connID = last.idsBefore

\* C19 as stated: a step decides from the state the chains have when it runs,
\* so that every change made on chain before the step is seen by it.
C19_SeesLatestState ==
    (last.ran /\ last.obs # NoObs) => last.obs = last.latest

\* C19 as amended: a step decides from the connection states it queries
\* itself, at one block below the height it synchronised to: it sees every
\* change committed below the chains' latest blocks, whoever made it.
C19_ObservesBelowLatest ==
    (last.ran /\ last.obs # NoObs) => last.obs = last.below

\* C19 witness: another relayer changed a chain between two steps, a block
\* passed, and the later step observed the changed state
C19_Witness ==
    /\ last.ran /\ last.obs # NoObs /\ attempts >= 2 /\ interfered
    /\ last.obs = last.latest
    /\ last.obs # StatePair(start.conns, last.idsBefore)

\* a paired fetch returned with exactly one of the two fetches failed
OneSideFailed ==
    /\ egPc = "returned"
    /\ \E c \in Chains : egTaskErr[c] = "fail" /\ egTaskErr[Other(c)] = "nil"

\* C17 as stated: when one fetch succeeds and the other fails, each paired
\* fetch returns an error and no value, neither the successful side's.
C17_NoPartialResult ==
    OneSideFailed =>
        /\ egRet.err # "nil"
        /\ egRet.src = "zero" /\ egRet.dst = "zero"

NilOnError == {"QueryChannelPair", "GetIBCUpdateHeaders", "GetLightSignedHeadersAtHeights"}

\* C17 as amended: when one fetch succeeds and the other fails, every paired
\* fetch returns an error; QueryChannelPair, GetIBCUpdateHeaders and
\* GetLightSignedHeadersAtHeights return no value with it, QueryLatestHeights
\* and QueryConnectionPair return the successful side's value with it.
C17_ErrorWithOrWithoutValue ==
    OneSideFailed =>
        /\ egRet.err # "nil"
        /\ egOp \in NilOnError => (egRet.src = "zero" /\ egRet.dst = "zero")
        /\ egOp \notin NilOnError =>
              \A c \in Chains : egTaskErr[c] = "nil" => egRet[c] = c

\* C17 witness: src's channel was fetched, dst's fetch failed, nothing was returned
C17_Witness ==
    /\ OneSideFailed /\ egOp = "QueryChannelPair"
    /\ egTaskErr["src"] = "nil" /\ egVal["src"] = "src"
    /\ egRet = [src |-> "zero", dst |-> "zero", err |-> "dst"]

\* C18: a paired fetch returns only after both goroutines were started and
\* have returned; the error it returns is that of the first goroutine to
\* return one, nil when none did; each goroutine assigns only its own result.
C18_FanOutFanIn ==
    /\ egPc = "returned" =>
          /\ \A c \in Chains : egTask[c] = "done"
          /\ egRet.err = IF egOrder = <<>> THEN "nil" ELSE egOrder[1]
    /\ \A v \in Chains : egWriters[v] \subseteq {v}

\* C18 witness: both fetches failed, dst's (started second) first, and dst's
\* error was returned
C18_Witness ==
    /\ egPc = "returned"
    /\ egOrder = <<"dst", "src">>
    /\ egRet.err = "dst"
    /\ egWriters = [c \in Chains |-> {c}]

\* C20: every constructed message that carries a proof has its proof-height
\* field equal to H + 1, H being the height the proof was fetched at; the
\* message PacketMsg builds has H + 1 too, the 1 added once.
C20_ProofHeightPlusOne ==
    msgKind \in ProofKinds => msgField = msgH + 1

\* C20 witness: PacketMsg at the largest height a chain can report
C20_Witness ==
    msgKind = "PacketMsg" /\ msgH = MaxHeight /\ msgField = MaxHeight + 1

\* C21: one step writes to one chain.  A step calls SendMsgs at most once and
\* changes the state and the identifier of at most one chain; with both
\* identifiers empty it submits ConnOpenInit on src and leaves dst's
\* identifier empty and dst untouched; with only dst's empty it submits
\* ConnOpenTry on dst and leaves src's identifier and src untouched.
C21_OneChainPerStep ==
    [][attempts' = attempts + 1 =>
         /\ Len(last'.sends) <= 1
         /\ Cardinality({c \in Chains : conns'[c] # conns[c]}) <= 1
         /\ Cardinality({c \in Chains : connID'[c] # connID[c]}) <= 1
         /\ (connID = BothEmpty /\ Len(last'.sends) = 1) =>
               /\ last'.sends[1].to = "src"
               /\ last'.sends[1].msgs[2].type = "ConnOpenInit"
               /\ connID'["dst"] = NoID
               /\ conns'["dst"] = conns["dst"]
         /\ (connID["src"] # NoID /\ connID["dst"] = NoID /\ Len(last'.sends) = 1) =>
               /\ last'.sends[1].to = "dst"
               /\ last'.sends[1].msgs[2].type = "ConnOpenTry"
               /\ connID'["src"] = connID["src"]
               /\ conns'["src"] = conns["src"]]_vars

\* C21 witness: from both identifiers empty, two invocations: ConnOpenInit on
\* src assigned src's identifier, then ConnOpenTry on dst assigned dst's
C21_Witness ==
    /\ start.ids = BothEmpty /\ attempts = 2
    /\ accepted = <<<<"src", "ConnOpenInit">>, <<"dst", "ConnOpenTry">>>>
    /\ last.idsBefore["src"] # NoID /\ last.idsBefore["dst"] = NoID
    /\ connID["src"] = last.idsBefore["src"] /\ connID["dst"] # NoID

\* C26: whenever the Init or Try transaction of InitializeConnection was
\* accepted on a chain, that chain's PathEnd identifier is non-empty when the
\* step has returned.
C26_AcceptedMeansAssigned ==
    (last.ran /\ last.init /\ Len(last.sends) = 1 /\ last.sends[1].success) =>
        connID[last.sends[1].to] # NoID

\* the latest step's submission was rejected for insufficient funds
InsufficientFunds ==
    last.ran /\ Len(last.sends) = 1 /\ last.sends[1].cause = "insufficient funds"

\* C24: a submission rejected for insufficient funds is not counted and
\* retried like another rejection: CreateOpenConnections returns, and what
\* it returns names the cause.
C24_InsufficientFundsEscalated ==
    InsufficientFunds => (pc = "returned" /\ result = "insufficient funds")

\* C22: once an operator stop is requested, CreateOpenConnections starts no
\* further step.
C22_StopsWhenAsked ==
    [][stopRequested => attempts' = attempts]_vars

\* the threads that are about to read chain c's identifier, other than invocation i itself
ReadersOf(c, i) ==
    {<<"step", j>> : j \in {j \in Invocations : j # i /\ pPos[j] = "entered"}}
    \cup {<<"task", j>> : j \in {j \in Invocations : pTask[j][c] = "running"}}

\* the invocations about to assign chain c's identifier, other than i
WritersOf(c, i) ==
    {j \in Invocations : j # i /\ pPos[j] = "write" /\ pTarget[j] = c}

ConfiguredOrder(str) ==
    IF str \in {"ordered", "ORDERED"} THEN "ORDERED"
    ELSE IF str \in {"Unordered", "UNORDERED"} THEN "UNORDERED"
    ELSE "NONE"

\* C25: ChanTry carries the counterparty's observed ordering and, as
\* counterparty version, its observed version; ChanAck carries its observed
\* version; only ChanInit carries the local PathEnd's configured order.
C25_CarriedThrough ==
    /\ chKind = "ChanTry" =>
          (chOut.ordering = chObs.ordering /\ chOut.cpVersion = chObs.version)
    /\ chKind = "ChanAck" => chOut.cpVersion = chObs.version
    /\ chKind = "ChanInit" => chOut.ordering = ConfiguredOrder(chOrder)

\* C25 witness: the local PathEnd is configured ordered, the counterparty's
\* channel is unordered with another version, and ChanTry carries the latter
C25_Witness ==
    /\ chKind = "ChanTry" /\ chOrder = "ordered"
    /\ chObs = [ordering |-> "UNORDERED", version |-> "ics20-2"]
    /\ chOut.ordering = "UNORDERED" /\ chOut.cpVersion = "ics20-2"

\* C27: a `lite start` that returns an error leaves the map as it was, and
\* the map holds an entry only for a chain whose lite client was created.
C27_FailedStartLeavesMap ==
    /\ (lcLast.cmd = "start" /\ lcLast.err # "nil") => lcMap = lcLast.mapBefore
    /\ \A c \in ChainIDs : lcMap[c] # "none" => lcClient[c] # "none"

\* C28: `lite start` for a chain with an entry returns an error and leaves
\* the map as it was; after a `lite delete` that returned nil the chain has no
\* entry, the other entries are as before and a client the entry held is
\* stopped and cleaned up; `lite delete` for a chain without entry returns
\* nil and changes nothing; a `lite start` whose calls all succeed, for a
\* configured chain without entry (as after a delete), stores a running client.
C28_Lifecycle ==
    /\ (lcLast.cmd = "start" /\ lcLast.mapBefore[lcLast.chain] # "none") =>
          (lcLast.err # "nil" /\ lcMap = lcLast.mapBefore)
    /\ (lcLast.cmd = "delete" /\ lcLast.err = "nil") =>
          /\ lcMap[lcLast.chain] = "none"
          /\ \A c \in ChainIDs \ {lcLast.chain} : lcMap[c] = lcLast.mapBefore[c]
          /\ lcLast.mapBefore[lcLast.chain] = "client" => lcClient[lcLast.chain] = "cleaned"
    /\ (lcLast.cmd = "delete" /\ lcLast.mapBefore[lcLast.chain] = "none") =>
          (lcLast.err = "nil" /\ lcMap = lcLast.mapBefore)
    /\ ( /\ lcLast.cmd = "start" /\ lcLast.chain \in Configured
         /\ lcLast.mapBefore[lcLast.chain] = "none" /\ lcLast.inputsOK ) =>
          /\ lcLast.err = "nil"
          /\ lcMap[lcLast.chain] = "client" /\ lcClient[lcLast.chain] = "running"

\* C28 witness: a chain whose client was deleted (stopped and cleaned up)
\* was started again, while the other chain's client kept running
C28_Witness ==
    /\ lcLast.cmd = "start" /\ lcLast.chain = "ibc0" /\ lcLast.err = "nil"
    /\ lcLast.mapBefore = [c \in ChainIDs |-> IF c = "ibc1" THEN "client" ELSE "none"]
    /\ lcLast.clientBefore["ibc0"] = "cleaned"
    /\ lcMap["ibc0"] = "client" /\ lcClient["ibc0"] = "running"
    /\ lcClient["ibc1"] = "running"

====
